---- MODULE Spec2Model ----
(***************************************************************************)
(* A model of app.py: the POST /analyze handler (analyze_or_chat) with its *)
(* two outbound collaborators (the Solscan market-data provider and the    *)
(* OpenAI chat endpoint), the address pattern SOLANA_CA_PATTERN, the       *)
(* helper get_supply_percentage, and the rule table of RAI_SYSTEM_MESSAGE. *)
(*                                                                         *)
(* Texts are sequences of one-character strings.  Percentages are integers *)
(* counting hundredths of a percent (20.00% is 2000).                      *)
(***************************************************************************)
EXTENDS Integers, Sequences, FiniteSets, TLC

VARIABLES
    pc,            \* where the run is: start, meta_wait, ai_wait, done, raised, ...
    user_query,    \* body.user_query as received
    embedded,      \* ghost: where an address was planted in user_query (len 0: nowhere)
    ca,            \* match.group(0), <<>> while there is no match
    calls,         \* the outbound calls issued so far, in order
    meta_outcome,  \* what requests.get gave get_token_info
    token_info,    \* first component of get_token_info's result
    total_supply,  \* second component of get_token_info's result
    ai_prompt,     \* the user message handed to get_ai_response
    ai_outcome,    \* what requests.post gave get_ai_response
    result,        \* the value the handler returned
    tx_outcome,    \* what requests.get gave get_supply_percentage
    supply_out,    \* what get_supply_percentage returned
    pct,           \* a supply percentage put to the rules of RAI_SYSTEM_MESSAGE
    band           \* the rule of RAI_SYSTEM_MESSAGE applied to pct (0: none yet)

vars == <<pc, user_query, embedded, ca, calls, meta_outcome, token_info, total_supply,
          ai_prompt, ai_outcome, result, tx_outcome, supply_out, pct, band>>

(***************************************************************************)
(* Characters.                                                             *)
(***************************************************************************)

\* The character class of SOLANA_CA_PATTERN: [1-9A-HJ-NP-Za-km-z].
Base58 ==
    {"1", "2", "3", "4", "5", "6", "7", "8", "9",
     "A", "B", "C", "D", "E", "F", "G", "H", "J", "K", "L", "M", "N",
     "P", "Q", "R", "S", "T", "U", "V", "W", "X", "Y", "Z",
     "a", "b", "c", "d", "e", "f", "g", "h", "i", "j", "k",
     "m", "n", "o", "p", "q", "r", "s", "t", "u", "v", "w", "x", "y", "z"}

\* What \b takes for a word character (\w on ASCII text).
WordChars == Base58 \cup {"0", "I", "O", "l", "_"}

\* What str.strip() removes.
Whitespace == {" ", "\t", "\n", "\r"}

\* {32,44} of SOLANA_CA_PATTERN.
MinLen == 32
MaxLen == 44

Min(S) == CHOOSE x \in S : \A y \in S : x <= y
Max(S) == CHOOSE x \in S : \A y \in S : x >= y

\* str.strip(): the text without its leading and trailing whitespace.
Strip(s) ==
    LET keep == {i \in 1..Len(s) : s[i] \notin Whitespace}
    IN  IF keep = {} THEN <<>> ELSE SubSeq(s, Min(keep), Max(keep))

(***************************************************************************)
(* re.search(SOLANA_CA_PATTERN, s): the leftmost start at which            *)
(* \b[base58]{32,44}\b matches, the repetition greedy and backing off one  *)
(* character at a time until the closing \b holds.                         *)
(***************************************************************************)

\* The pattern had it no \b: every position passes.
IsBoundaryLax(s, i) == TRUE

\* \b before position i (1..Len(s)+1): exactly one side is a word character.
IsBoundary(s, i) ==
    LET before == i > 1 /\ s[i - 1] \in WordChars
        after  == i <= Len(s) /\ s[i] \in WordChars
    IN  before # after

RECURSIVE RunFromShort(_, _, _)
\* The repetition had it been written {32,43}.
RunFromShort(s, i, k) ==
    IF k < MaxLen - 1 /\ i + k <= Len(s) /\ s[i + k] \in Base58
    THEN RunFromShort(s, i, k + 1)
    ELSE k

RECURSIVE RunFrom(_, _, _)
\* How many characters the greedy {32,44} takes from position i, k taken so far.
RunFrom(s, i, k) ==
    IF k < MaxLen /\ i + k <= Len(s) /\ s[i + k] \in Base58
    THEN RunFrom(s, i, k + 1)
    ELSE k

RECURSIVE Backtrack(_, _, _)
\* The longest length <= l, >= MinLen, after which \b holds; 0 when there is none.
Backtrack(s, i, l) ==
    IF l < MinLen THEN 0
    ELSE IF IsBoundary(s, i + l) THEN l
    ELSE Backtrack(s, i, l - 1)

\* The length matched at start i, 0 when the pattern does not match there.
MatchAt(s, i) ==
    IF ~IsBoundary(s, i) THEN 0 ELSE Backtrack(s, i, RunFrom(s, i, 0))

NoMatch == [start |-> 0, len |-> 0]

RECURSIVE SearchFrom(_, _)
SearchFrom(s, i) ==
    IF i > Len(s) THEN NoMatch
    ELSE LET l == MatchAt(s, i)
         IN  IF l > 0 THEN [start |-> i, len |-> l] ELSE SearchFrom(s, i + 1)

ReSearch(s) == SearchFrom(s, 1)

\* match.group(0): the matched part of s.
Group0(s, m) == SubSeq(s, m.start, m.start + m.len - 1)

(***************************************************************************)
(* JSON values as Python sees them.  A field of the provider's record is   *)
(* missing, null, a number, the decimal string of a number, or a string    *)
(* that is no number.                                                      *)
(***************************************************************************)

Missing    == [t |-> "missing", n |-> 0]
Null       == [t |-> "null", n |-> 0]
Num(n)     == [t |-> "num", n |-> n]
NumStr(n)  == [t |-> "numstr", n |-> n]
BadStr     == [t |-> "badstr", n |-> 0]

\* int(data.get(key, 0)) and float(data.get(key, 0)): the default 0 stands in
\* only for a missing key; None raises TypeError, "abc" raises ValueError.
PyNumberRaises(v) == v.t \in {"null", "badstr"}
PyNumber(v) == IF v.t = "missing" THEN 0 ELSE v.n

(***************************************************************************)
(* get_token_info (lines 109-148) on what requests.get gave it.            *)
(***************************************************************************)

NoTokenInfo == [present |-> FALSE, total_supply |-> 0, market_cap |-> 0,
                socials |-> "missing"]

TokenInfoResult(raised, info, supply) ==
    [raised |-> raised, token_info |-> info, total_supply |-> supply]

\* Lines 118-144: the body of the try block, the response in hand.
token_info_from_response(o) ==
    IF o.status # 200
    THEN TokenInfoResult(FALSE, NoTokenInfo, 0)         \* line 144
    ELSE IF o.data \in {"absent", "null", "empty_list", "empty_object"}
    THEN TokenInfoResult(FALSE, NoTokenInfo, 0)         \* `if data:` is false
    ELSE IF o.data = "list"
    THEN TokenInfoResult(TRUE, NoTokenInfo, 0)          \* list has no .get
    ELSE IF PyNumberRaises(o.supply) \/ PyNumberRaises(o.market_cap)
    THEN TokenInfoResult(TRUE, NoTokenInfo, 0)          \* int(None), float("abc")
    ELSE IF o.metadata = "null"
    THEN TokenInfoResult(TRUE, NoTokenInfo, 0)          \* None.get("description")
    ELSE TokenInfoResult(FALSE,
                         [present |-> TRUE,
                          total_supply |-> PyNumber(o.supply),
                          market_cap |-> PyNumber(o.market_cap),
                          socials |-> o.metadata],
                         PyNumber(o.supply))

\* get_token_info had it no except clause, and raise_for_status() in the try.
get_token_info_uncaught(o) ==
    IF o.kind = "network_error" \/ o.status >= 400
    THEN TokenInfoResult(TRUE, NoTokenInfo, 0)
    ELSE token_info_from_response(o)

get_token_info(o) ==
    IF o.kind = "network_error"
    THEN TokenInfoResult(FALSE, NoTokenInfo, 0)         \* except RequestException
    ELSE token_info_from_response(o)

(***************************************************************************)
(* get_ai_response (lines 181-207) on what requests.post gave it.          *)
(***************************************************************************)

OpenAiErrorText == <<"OpenAI error. Try again later.">>
ServerErrorText == <<"Server error. Try again later.">>
AnalyzeErrorText == <<"Error analyzing token.">>

Response(text) == [keys |-> {"response"}, response |-> text]
NoResult == [keys |-> {}, response |-> <<>>]

get_ai_response(o) ==
    IF o.kind = "network_error"
    THEN Response(ServerErrorText)                      \* except Exception
    ELSE IF o.status # 200
    THEN Response(OpenAiErrorText)                      \* line 200
    ELSE IF o.body = "content"
    THEN Response(Strip(o.content))                     \* line 203
    ELSE Response(ServerErrorText)                      \* KeyError, IndexError, ...

(***************************************************************************)
(* The inputs: queries, and what the two collaborators may answer.         *)
(***************************************************************************)

\* Characters put around an address: a base-58 letter, a word character that
\* is not base-58, a blank, and punctuation.
PadChars == {"A", "0", " ", "-"}

Rep(c, n) == [i \in 1..n |-> c]

\* The queries sent to /analyze: a run of base-58 letters of a length at or
\* next to the pattern's limits (or no run), with at most one character on
\* each side.
Pads1 == {<<>>} \cup {<<c>> : c \in PadChars}
RequestRunLens == {0, MinLen - 1, MinLen, MaxLen, MaxLen + 1}
RequestQueries ==
    {pre \o Rep("A", n) \o suf : pre \in Pads1, suf \in Pads1, n \in RequestRunLens}

NetworkError ==
    [kind |-> "network_error", status |-> 0, data |-> "absent", supply |-> Missing,
     market_cap |-> Missing, metadata |-> "missing"]

MetaResponse(status, data, supply, market_cap, metadata) ==
    [kind |-> "response", status |-> status, data |-> data, supply |-> supply,
     market_cap |-> market_cap, metadata |-> metadata]

SupplyValues == {Missing, Null, BadStr, Num(0), Num(1000), NumStr(1000)}
MarketCapValues == {Missing, Null, BadStr, Num(5000)}
MetadataValues == {"missing", "null", "object"}

\* What requests.get can give get_token_info: a connection error, a
\* non-success status, or 200 with a `data` envelope of any of the shapes.
MetaOutcomes ==
    {NetworkError}
    \cup {MetaResponse(st, "absent", Missing, Missing, "missing") : st \in {404, 500}}
    \cup {MetaResponse(200, d, Missing, Missing, "missing") :
            d \in {"absent", "null", "empty_list", "list", "empty_object"}}
    \cup {MetaResponse(200, "object", sp, mc, md) :
            sp \in SupplyValues, mc \in MarketCapValues, md \in MetadataValues}

AiNetworkError ==
    [kind |-> "network_error", status |-> 0, body |-> "none", content |-> <<>>]

AiResponse(status, body, content) ==
    [kind |-> "response", status |-> status, body |-> body, content |-> content]

AiContents == {<<>>, <<" ">>, <<"g", "m">>, <<" ", "g", "m", "\n">>}

\* What requests.post can give get_ai_response: a connection error, a
\* non-200 status, 200 with a completion, or 200 with a body that has no
\* choices[0].message.content string.
AiOutcomes ==
    {AiNetworkError}
    \cup {AiResponse(st, "content", <<"g", "m">>) : st \in {201, 429, 500}}
    \cup {AiResponse(200, "content", c) : c \in AiContents}
    \cup {AiResponse(200, b, <<>>) : b \in {"no_choices", "null_content", "not_json"}}

NoMetaOutcome == [kind |-> "none", status |-> 0, data |-> "absent", supply |-> Missing,
                  market_cap |-> Missing, metadata |-> "missing"]
NoAiOutcome == [kind |-> "none", status |-> 0, body |-> "none", content |-> <<>>]
NoPrompt == [kind |-> "none", text |-> <<>>, token_info |-> NoTokenInfo]

\* An outbound call as issued: requests.get/post are given no timeout argument.
Call(endpoint) == [endpoint |-> endpoint, timeout |-> "None"]

Endpoints == {calls[i].endpoint : i \in 1..Len(calls)}

(***************************************************************************)
(* POST /analyze (lines 209-223), cut at its two outbound calls.           *)
(***************************************************************************)

NoTxOutcome == [kind |-> "none", status |-> 0, data |-> "absent", amounts |-> <<>>]
NoSupplyOut == [raised |-> FALSE, type |-> "none", value |-> 0]

\* The request's part of the state before the handler runs.
RequestIdle ==
    /\ ca = <<>>
    /\ calls = <<>>
    /\ meta_outcome = NoMetaOutcome
    /\ token_info = NoTokenInfo
    /\ ai_prompt = NoPrompt
    /\ ai_outcome = NoAiOutcome
    /\ result = NoResult

\* The parts of the state the request handler never touches.
IdleParts ==
    /\ tx_outcome = NoTxOutcome
    /\ supply_out = NoSupplyOut
    /\ pct = 0
    /\ band = 0

Init ==
    /\ pc = "start"
    /\ user_query \in RequestQueries
    /\ embedded = NoMatch
    /\ total_supply = 0
    /\ RequestIdle
    /\ IdleParts

\* Lines 212-217: the stripped query matches; get_token_info issues its GET.
StartAnalyze ==
    /\ pc = "start"
    /\ \E s \in {Strip(user_query)} :
         \E match \in {ReSearch(s)} :
           /\ match # NoMatch
           /\ ca' = Group0(s, match)
    /\ calls' = Append(calls, Call("meta"))
    /\ pc' = "meta_wait"
    /\ UNCHANGED <<user_query, embedded, meta_outcome, token_info, total_supply,
                   ai_prompt, ai_outcome, result, tx_outcome, supply_out, pct, band>>

\* Lines 212-213, 223: no match; get_ai_response issues its POST with the
\* stripped query.
StartChat ==
    /\ pc = "start"
    /\ \E s \in {Strip(user_query)} :
         \E match \in {ReSearch(s)} :
           /\ match = NoMatch
           /\ ai_prompt' = [kind |-> "chat", text |-> s, token_info |-> NoTokenInfo]
    /\ calls' = Append(calls, Call("ai"))
    /\ pc' = "ai_wait"
    /\ UNCHANGED <<user_query, embedded, ca, meta_outcome, token_info, total_supply,
                   ai_outcome, result, tx_outcome, supply_out, pct, band>>

\* Line 217: get_token_info raises; nothing in analyze_or_chat catches it.
MetaRaises ==
    /\ pc = "meta_wait"
    /\ \E o \in MetaOutcomes :
         /\ get_token_info(o).raised
         /\ meta_outcome' = o
    /\ pc' = "raised"
    /\ UNCHANGED <<user_query, embedded, ca, calls, token_info, total_supply,
                   ai_prompt, ai_outcome, result, tx_outcome, supply_out, pct, band>>

\* Lines 217-219: get_token_info returns (None, 0); the handler returns the
\* error response.
MetaNotFound ==
    /\ pc = "meta_wait"
    /\ \E o \in MetaOutcomes :
         LET r == get_token_info(o)
         IN  /\ ~r.raised
             /\ ~r.token_info.present
             /\ meta_outcome' = o
             /\ token_info' = r.token_info
             /\ total_supply' = r.total_supply
    /\ result' = Response(AnalyzeErrorText)
    /\ pc' = "done"
    /\ UNCHANGED <<user_query, embedded, ca, calls, ai_prompt, ai_outcome,
                   tx_outcome, supply_out, pct, band>>

\* Lines 217-221: get_token_info returns the token's record; get_ai_response
\* issues its POST with "Analyze token: {token_info}".
MetaFound ==
    /\ pc = "meta_wait"
    /\ \E o \in MetaOutcomes :
         LET r == get_token_info(o)
         IN  /\ ~r.raised
             /\ r.token_info.present
             /\ meta_outcome' = o
             /\ token_info' = r.token_info
             /\ total_supply' = r.total_supply
             /\ ai_prompt' = [kind |-> "analyze", text |-> <<>>,
                              token_info |-> r.token_info]
    /\ calls' = Append(calls, Call("ai"))
    /\ pc' = "ai_wait"
    /\ UNCHANGED <<user_query, embedded, ca, ai_outcome, result,
                   tx_outcome, supply_out, pct, band>>

\* Lines 221, 223: get_ai_response returns and the handler returns its value.
AiReturns ==
    /\ pc = "ai_wait"
    /\ \E o \in AiOutcomes :
         /\ ai_outcome' = o
         /\ result' = get_ai_response(o)
    /\ pc' = "done"
    /\ UNCHANGED <<user_query, embedded, ca, calls, meta_outcome, token_info,
                   total_supply, ai_prompt, tx_outcome, supply_out, pct, band>>

Next ==
    \/ StartAnalyze
    \/ StartChat
    \/ MetaRaises
    \/ MetaNotFound
    \/ MetaFound
    \/ AiReturns

Spec == Init /\ [][Next]_vars

\* The server runs the handler's own code whenever it can run; whether and
\* when a collaborator answers is the collaborator's business.
FairSpec == Spec /\ WF_vars(StartAnalyze \/ StartChat)

(***************************************************************************)
(* The extraction step alone (lines 212-216), on texts with an address     *)
(* planted in them: a run of MinLen..MaxLen base-58 letters with up to     *)
(* MaxPad characters on each side, after nothing or after another address  *)
(* and a blank.                                                            *)
(***************************************************************************)

MaxPad == 1

Pads(k) == UNION {[1..m -> PadChars] : m \in 0..k}
Leads == {<<>>, Rep("B", MinLen) \o <<" ">>}

InitExtract ==
    /\ pc = "start"
    /\ \E lead \in Leads, pre \in Pads(MaxPad), suf \in Pads(MaxPad), n \in MinLen..MaxLen :
         /\ user_query = lead \o pre \o Rep("A", n) \o suf
         /\ embedded = [start |-> Len(lead) + Len(pre) + 1, len |-> n]
    /\ total_supply = 0
    /\ RequestIdle
    /\ IdleParts

NextExtract ==
    \/ StartAnalyze
    \/ StartChat

SpecExtract == InitExtract /\ [][NextExtract]_vars

(***************************************************************************)
(* get_supply_percentage (lines 150-179) on what requests.get gave it.     *)
(***************************************************************************)

MaxTx == 3
MaxAmount == 3
MaxSupply == 32

RECURSIVE SumAmounts(_)
\* sum(tx["amount"] for tx in data)
SumAmounts(a) == IF a = <<>> THEN 0 ELSE Head(a).n + SumAmounts(Tail(a))

SupplyOut(raised, type, value) == [raised |-> raised, type |-> type, value |-> value]

\* (total_bought // total_supply) * 100, had the division been written //.
supply_percentage_floordiv(total_bought, supply) ==
    IF supply > 0
    THEN {SupplyOut(FALSE, "float", (total_bought \div supply) * 10000)}
    ELSE {SupplyOut(FALSE, "int", 0)}

\* Lines 172, 175: round((total_bought / total_supply) * 100, 2) in hundredths
\* of a percent.  The quotient is a binary float, so a value that lies
\* exactly between two hundredths may come out on either side.
supply_percentage(total_bought, supply) ==
    IF supply > 0
    THEN LET n == 10000 * total_bought
             f == n \div supply
             r == n % supply
         IN  {SupplyOut(FALSE, "float", h) :
                h \in (IF 2 * r <= supply THEN {f} ELSE {}) \cup
                      (IF 2 * r >= supply THEN {f + 1} ELSE {})}
    ELSE {SupplyOut(FALSE, "int", 0)}

\* The values get_supply_percentage may return.
get_supply_percentage(o, supply) ==
    IF o.kind = "network_error"
    THEN {SupplyOut(FALSE, "int", 0)}                   \* except RequestException
    ELSE IF o.status # 200
    THEN {SupplyOut(FALSE, "int", 0)}                   \* line 164
    ELSE IF o.data \in {"absent", "null", "empty_list", "empty_object"}
    THEN {SupplyOut(FALSE, "int", 0)}                   \* line 169
    ELSE IF o.data = "object"
    THEN {SupplyOut(TRUE, "none", 0)}                   \* tx is a key: str["amount"]
    ELSE IF \E i \in 1..Len(o.amounts) : o.amounts[i].t # "num"
    THEN {SupplyOut(TRUE, "none", 0)}                   \* KeyError, int + None
    ELSE supply_percentage(SumAmounts(o.amounts), supply)

TxResponse(status, data, amounts) ==
    [kind |-> "response", status |-> status, data |-> data, amounts |-> amounts]

AmountValues == {Num(a) : a \in 0..MaxAmount} \cup {Missing, Null}

TxOutcomes ==
    {[kind |-> "network_error", status |-> 0, data |-> "absent", amounts |-> <<>>]}
    \cup {TxResponse(st, "absent", <<>>) : st \in {404, 500}}
    \cup {TxResponse(200, d, <<>>) :
            d \in {"absent", "null", "empty_list", "empty_object", "object"}}
    \cup {TxResponse(200, "list", a) :
            a \in UNION {[1..m -> AmountValues] : m \in 1..MaxTx}}

InitSupply ==
    /\ pc = "supply_start"
    /\ user_query = <<>>
    /\ embedded = NoMatch
    /\ total_supply \in 0..MaxSupply
    /\ tx_outcome \in TxOutcomes
    /\ supply_out = NoSupplyOut
    /\ pct = 0
    /\ band = 0
    /\ RequestIdle

CallSupplyPercentage ==
    /\ pc = "supply_start"
    /\ supply_out' \in get_supply_percentage(tx_outcome, total_supply)
    /\ pc' = "supply_done"
    /\ UNCHANGED <<user_query, embedded, ca, calls, meta_outcome, token_info,
                   total_supply, ai_prompt, ai_outcome, result, tx_outcome, pct, band>>

NextSupply == CallSupplyPercentage

SpecSupply == InitSupply /\ [][NextSupply]_vars

(***************************************************************************)
(* The five rules of RAI_SYSTEM_MESSAGE (lines 43-60), the only table from *)
(* supply bought at launch to a verdict that the code holds.               *)
(***************************************************************************)

MaxPct == 10000

\* Rule 1 had it read "20% or less".
PromptRulesOffByOne(p) ==
    (IF p <= 2000 THEN {1} ELSE {})
    \cup (IF p >= 2000 /\ p <= 3000 THEN {2} ELSE {})
    \cup (IF p >= 3000 /\ p <= 4000 THEN {3} ELSE {})
    \cup (IF p >= 4000 /\ p <= 6000 THEN {4} ELSE {})
    \cup (IF p > 6000 THEN {5} ELSE {})

\* The rules whose condition a percentage p (in hundredths) meets: "less
\* than 20%", "20-30%", "30-40%", "40-60%", "more than 60%".
PromptRules(p) ==
    (IF p < 2000 THEN {1} ELSE {})
    \cup (IF p >= 2000 /\ p <= 3000 THEN {2} ELSE {})
    \cup (IF p >= 3000 /\ p <= 4000 THEN {3} ELSE {})
    \cup (IF p >= 4000 /\ p <= 6000 THEN {4} ELSE {})
    \cup (IF p > 6000 THEN {5} ELSE {})

InitTier ==
    /\ pc = "tier_start"
    /\ user_query = <<>>
    /\ embedded = NoMatch
    /\ total_supply = 0
    /\ tx_outcome = NoTxOutcome
    /\ supply_out = NoSupplyOut
    /\ pct \in 0..MaxPct
    /\ band = 0
    /\ RequestIdle

ApplyPromptRule ==
    /\ pc = "tier_start"
    /\ band' \in PromptRules(pct)
    /\ pc' = "tier_done"
    /\ UNCHANGED <<user_query, embedded, ca, calls, meta_outcome, token_info,
                   total_supply, ai_prompt, ai_outcome, result, tx_outcome,
                   supply_out, pct>>

NextTier == ApplyPromptRule

SpecTier == InitTier /\ [][NextTier]_vars

(***************************************************************************)
(* Properties.                                                             *)
(***************************************************************************)

\* q[i..i+l-1] is a run of MinLen..MaxLen base-58 characters with no word
\* character next to it on either side.
AddressWordAt(q, i, l) ==
    /\ l \in MinLen..MaxLen
    /\ i >= 1
    /\ i + l - 1 <= Len(q)
    /\ \A j \in i..(i + l - 1) : q[j] \in Base58
    /\ (i = 1 \/ q[i - 1] \notin WordChars)
    /\ (i + l - 1 = Len(q) \/ q[i + l] \notin WordChars)

ContainsAddressShape(q) ==
    \E i \in 1..Len(q), l \in MinLen..MaxLen : AddressWordAt(q, i, l)

Returned == pc \in {"done", "raised"}

\* C1: a request whose user_query holds no address-shaped substring never
\* calls the market-data provider (metadata or transfers), and what it
\* returns is the {response: string} that get_ai_response made of the
\* stripped query.
C1_NoAddressBypassesProvider ==
    ~ContainsAddressShape(user_query)
    => /\ Endpoints \subseteq {"ai"}
       /\ pc \in {"start", "ai_wait", "done"}
       /\ pc = "done"
          => /\ result.keys = {"response"}
             /\ result = get_ai_response(ai_outcome)
             /\ ai_prompt.kind = "chat"
             /\ ai_prompt.text = Strip(user_query)

\* C1 witness: a query of MaxLen + 1 base-58 letters, answered by the chat.
C1_Witness ==
    /\ pc = "done"
    /\ ~ContainsAddressShape(user_query)
    /\ Len(user_query) > MaxLen
    /\ result.response = <<"g", "m">>

\* C2: once a request with an address and a successful metadata fetch has
\* returned, the transfers were fetched and the result carries the supply
\* concentration together with the token metadata.
C2_TransfersFetchedAndReported ==
    pc = "done" /\ token_info.present
    => /\ "transfer" \in Endpoints
       /\ {"token_info", "concentration"} \subseteq result.keys

MetaFailed ==
    \/ meta_outcome.kind = "network_error"
    \/ meta_outcome.kind = "response" /\ meta_outcome.status # 200

\* C3: when the metadata request ends in a non-success status or a network
\* failure, the request returns (nothing is raised) the error response, with
\* no risk tier in it, and no analysis is asked of the chat collaborator.
C3_MetadataFailureDegrades ==
    MetaFailed
    => /\ pc = "done"
       /\ result = Response(AnalyzeErrorText)
       /\ "risk" \notin result.keys
       /\ "ai" \notin Endpoints

\* C3 witness: the provider answered the metadata request with 500.
C3_Witness ==
    /\ pc = "done"
    /\ meta_outcome.kind = "response"
    /\ meta_outcome.status = 500
    /\ result = Response(AnalyzeErrorText)

\* C4: whatever the provider answers, no failure of the market-data client
\* gets past the request boundary.
C4_ClientNeverRaises == pc # "raised"

AiFailed ==
    /\ ai_outcome.kind # "none"
    /\ \/ ai_outcome.kind = "network_error"
       \/ ai_outcome.status \notin 200..299
       \/ ai_outcome.body # "content"
       \/ ai_outcome.content = <<>>

\* C9: every failure of the chat collaborator (non-2xx, network error,
\* malformed body, empty content) makes get_ai_response return one of its
\* error texts, never an empty string or the collaborator's content.
C9_AiFailureIsNoResponse ==
    pc = "done" /\ AiFailed
    => result.response \in {OpenAiErrorText, ServerErrorText}

\* C10: every request eventually returns, even when a collaborator never
\* answers.
C10_EveryRequestReturns == <>Returned

EmbeddedString ==
    SubSeq(user_query, embedded.start, embedded.start + embedded.len - 1)

\* The planted address is the first address-shaped word of the query.
FirstAddressWord ==
    /\ AddressWordAt(user_query, embedded.start, embedded.len)
    /\ \A i \in 1..(embedded.start - 1), l \in MinLen..MaxLen :
         ~AddressWordAt(user_query, i, l)

\* C8 as stated: wherever a valid address is planted in a text, the
\* extraction returns exactly that substring.
C8_ExtractsEmbeddedAnywhere ==
    pc # "start" /\ embedded.len > 0 => ca = EmbeddedString

\* C8 as amended: when the planted address has no word character next to it
\* and no address-shaped word comes before it, the extraction returns
\* exactly that substring.
C8_ExtractsFirstAddressWord ==
    pc # "start" /\ embedded.len > 0 /\ FirstAddressWord => ca = EmbeddedString

\* C8 witness: an address of MaxLen letters with text on both sides, found.
C8_Witness ==
    /\ pc = "meta_wait"
    /\ embedded.len = MaxLen
    /\ embedded.start > 1
    /\ Len(user_query) > embedded.start + embedded.len - 1
    /\ FirstAddressWord
    /\ ca = EmbeddedString

TxIsAmountList ==
    /\ tx_outcome.kind = "response"
    /\ tx_outcome.status = 200
    /\ tx_outcome.data = "list"
    /\ \A i \in 1..Len(tx_outcome.amounts) : tx_outcome.amounts[i].t = "num"

\* C5: for a non-empty list of transfers with non-negative integer amounts,
\* the value returned is within 0.01 of 100 * sum(amounts) / total_supply
\* when total_supply > 0, and is 0, nothing raised, when total_supply = 0.
C5_SupplyPercentageWithinTolerance ==
    pc = "supply_done" /\ TxIsAmountList
    => /\ ~supply_out.raised
       /\ total_supply > 0
          => LET d == supply_out.value * total_supply
                      - 10000 * SumAmounts(tx_outcome.amounts)
             IN  d <= total_supply /\ -d <= total_supply
       /\ total_supply = 0 => supply_out.value = 0

\* C5 witness: 1 of 3 tokens bought comes out as 33.33.
C5_Witness ==
    /\ pc = "supply_done"
    /\ TxIsAmountList
    /\ total_supply = 3
    /\ SumAmounts(tx_outcome.amounts) = 1
    /\ supply_out.value = 3333

TxIsEmpty ==
    /\ tx_outcome.kind = "response"
    /\ tx_outcome.status = 200
    /\ tx_outcome.data \in {"absent", "null", "empty_list"}

\* C6: what get_supply_percentage returns for an empty or missing transfer
\* list is never a value it returns for a non-empty list whose percentage
\* is 0.
C6_EmptyDistinctFromZero ==
    pc = "supply_done" /\ TxIsEmpty
    => \A a \in 0..MaxAmount, ts \in 0..MaxSupply :
         \A r \in get_supply_percentage(TxResponse(200, "list", <<Num(a)>>), ts) :
           r.value = 0 => r # supply_out

\* The table of the design: [0,10) Low, [10,20) Guarded, [20,40) Elevated,
\* [40,60) High, [60,100] Severe, numbered 1 to 5.
DesignTier(p) ==
    IF p < 1000 THEN 1
    ELSE IF p < 2000 THEN 2
    ELSE IF p < 4000 THEN 3
    ELSE IF p < 6000 THEN 4
    ELSE 5

====
